---- MODULE Spec2Model ----
(***************************************************************************)
(* Object <-> node mapping of llama_index/objects/base_node_mapping.py:    *)
(* BaseObjectNodeMapping (validate / add / from_node contract) and         *)
(* SimpleObjectNodeMapping (table keyed by hash(str(obj)), pickle          *)
(* persistence).                                                           *)
(*                                                                         *)
(* One Python process runs at a time.  It holds at most one mapping        *)
(* instance in the variable inst (a caller's `m = ...` binding); the       *)
(* persist directory and file outlive the process.  Python's hash() of a   *)
(* str depends on the per-process hash seed, so the seed is state too.     *)
(***************************************************************************)
EXTENDS Integers, Sequences, FiniteSets

VARIABLES inst, seed, dirExists, file, snap, last

vars == <<inst, seed, dirExists, file, snap, last>>

(***************************************************************************)
(* Bounds of the model.                                                    *)
(***************************************************************************)
\* longest batch handed to the constructor or to to_nodes
MaxBatch == 2
\* size of the key space hash() maps into (2^64 in CPython)
NKeys == 4
\* number of processes run one after the other, each with its own hash seed
NSeeds == 2

Keys == 0 .. (NKeys - 1)
Seeds == 0 .. (NSeeds - 1)

(***************************************************************************)
(* Objects.  A1 and A2 are distinct picklable objects with the same string *)
(* form; L is a lambda (pickle raises PicklingError) and H holds an open   *)
(* file handle (pickle raises TypeError).                                  *)
(***************************************************************************)
Objs == {"A1", "A2", "L", "H"}

\* str(obj), lines 106, 123, 126
str(obj) == CASE obj = "A1" -> "a" [] obj = "A2" -> "a" [] obj = "L" -> "c" [] obj = "H" -> "d"

\* contents a node may carry: the string forms above and "z", no object's
Strings == {"a", "c", "d", "z"}

Code(s) == CASE s = "a" -> 0 [] s = "c" -> 1 [] s = "d" -> 4 [] s = "z" -> 5

\* hash(s) of a str under the process hash seed sd: deterministic within a
\* process, different between seeds, and onto a finite key space, so distinct
\* strings may share a key.
hash(sd, s) == (Code(s) * (Code(s) + sd) + sd) % NKeys

Batches == UNION {[1 .. n -> Objs] : n \in 0 .. MaxBatch}

(***************************************************************************)
(* Strategies.  "Simple" is SimpleObjectNodeMapping itself, which inherits *)
(* the no-op validate_object; "Strict" is a subclass of it overriding the  *)
(* hook to reject A2.                                                      *)
(***************************************************************************)
Classes == {"Simple", "Strict"}

\* validate_object: TRUE when it returns, FALSE when it raises
validate_object(cls, obj) == cls = "Simple" \/ obj # "A2"

(***************************************************************************)
(* The table self._objs: a Python dict, kept as its entries in insertion   *)
(* order (pickle walks it in that order).                                  *)
(***************************************************************************)
Entry(k, v) == [k |-> k, v |-> v]

DictHas(d, k) == \E i \in 1 .. Len(d) : d[i].k = k

DictGet(d, k) == d[CHOOSE i \in 1 .. Len(d) : d[i].k = k].v

\* d[k] = v : an existing key keeps its place and takes the new value
DictSet(d, k, v) == IF DictHas(d, k) THEN [i \in 1 .. Len(d) |-> IF d[i].k = k THEN Entry(k, v) ELSE d[i]] ELSE Append(d, Entry(k, v))

\* {hash(str(obj)): obj for obj in objs}
RECURSIVE DictComp(_, _)
DictComp(objs, sd) == IF objs = <<>> THEN <<>> ELSE DictSet(DictComp(SubSeq(objs, 1, Len(objs) - 1), sd), hash(sd, str(objs[Len(objs)])), objs[Len(objs)])

\* the mutant of _add_object: the first object registered under a key stays
_add_object_keep_first(objs, sd, obj) == IF DictHas(objs, hash(sd, str(obj))) THEN objs ELSE Append(objs, Entry(hash(sd, str(obj)), obj))

\* self._objs[hash(str(obj))] = obj
_add_object(objs, sd, obj) == DictSet(objs, hash(sd, str(obj)), obj)

(***************************************************************************)
(* Nodes.  A TextNode carries a text and, possibly, metadata;              *)
(* get_content(metadata_mode=MetadataMode.NONE) is the text alone.         *)
(***************************************************************************)
Nodes == [text : Strings, metadata : BOOLEAN]

get_content(node) == node.text

\* the mutant of to_node: the node text is not str(obj)
to_node_other_form(obj) == [text |-> "z", metadata |-> FALSE]

\* TextNode(text=str(obj))
to_node(obj) == [text |-> str(obj), metadata |-> FALSE]

\* [self.to_node(obj) for obj in objs]
to_nodes(objs) == [i \in 1 .. Len(objs) |-> to_node(objs[i])]

\* the mutant of _from_node: a lookup that answers None for a missing key
_from_node_get(objs, sd, node) == IF DictHas(objs, hash(sd, get_content(node))) THEN DictGet(objs, hash(sd, get_content(node))) ELSE "None"

\* self._objs[hash(node.get_content(...))]: the object, or KeyError
_from_node(objs, sd, node) == IF DictHas(objs, hash(sd, get_content(node))) THEN DictGet(objs, hash(sd, get_content(node))) ELSE "KeyError"

\* the mutant of from_node: the object found is returned unvalidated
from_node_unvalidated(cls, objs, sd, node) == _from_node(objs, sd, node)

\* from_node: _from_node, then validate_object, then return
from_node(cls, objs, sd, node) == LET obj == _from_node(objs, sd, node) IN IF obj = "KeyError" THEN "KeyError" ELSE IF validate_object(cls, obj) THEN obj ELSE "ValidationError"

(***************************************************************************)
(* Pickle and the file system.                                             *)
(***************************************************************************)
Picklable(obj) == obj \notin {"L", "H"}

\* pickle.dump(self._objs, f): walks the entries in order and stops at the
\* first object it cannot serialize
pickle_dump(objs) == IF \A i \in 1 .. Len(objs) : Picklable(objs[i].v) THEN "ok" ELSE LET i == CHOOSE j \in 1 .. Len(objs) : ~Picklable(objs[j].v) /\ \A h \in 1 .. (j - 1) : Picklable(objs[h].v) IN IF objs[i].v = "L" THEN "PicklingError" ELSE "TypeError"

NoFile == [kind |-> "missing", data |-> <<>>]
Garbage == [kind |-> "garbage", data |-> <<>>]
Truncated == [kind |-> "truncated", data |-> <<>>]
PickleFile(objs) == [kind |-> "pickle", data |-> objs]

\* the mutant of persist: the directory is not created
persist_no_makedirs(objs, dirEx, f) == IF ~dirEx THEN [out |-> "FileNotFoundError", dir |-> FALSE, file |-> f] ELSE IF pickle_dump(objs) = "ok" THEN [out |-> "ok", dir |-> TRUE, file |-> PickleFile(objs)] ELSE [out |-> IF pickle_dump(objs) = "PicklingError" THEN "ValueError" ELSE "TypeError", dir |-> TRUE, file |-> Truncated]

\* persist: makedirs when the directory is missing, open(path, "wb") (which
\* creates or truncates the file), pickle.dump; only pickle.PickleError is
\* turned into ValueError
persist(objs, dirEx, f) == IF pickle_dump(objs) = "ok" THEN [out |-> "ok", dir |-> TRUE, file |-> PickleFile(objs)] ELSE [out |-> IF pickle_dump(objs) = "PicklingError" THEN "ValueError" ELSE "TypeError", dir |-> TRUE, file |-> Truncated]

\* from_persist_dir up to the load: open(path, "rb") and pickle.load; only
\* pickle.PickleError is turned into ValueError
from_persist_dir(dirEx, f) == IF ~dirEx \/ f.kind = "missing" THEN "FileNotFoundError" ELSE IF f.kind = "truncated" THEN "EOFError" ELSE IF f.kind = "garbage" THEN "ValueError" ELSE "ok"

(***************************************************************************)
(* State.                                                                  *)
(*   inst      the live mapping instance: cls, objs (the table) and, as    *)
(*             history, origin (ctor / loaded), registered (the objects    *)
(*             registered through the constructor batch or add_object)     *)
(*   seed      the hash seed of the running process (PYTHONHASHSEED unset: *)
(*             every process draws its own)                                *)
(*   dirExists, file   the persist directory and the file in it            *)
(*   snap      history: at the last successful persist, the class and      *)
(*             origin of the persisting mapping M and, per table entry,    *)
(*             M.from_node(M.to_node(v))                                   *)
(*   last      the last call: op, cls, arg, out, nodes; arg is the object  *)
(*             of add_object and to_node, the last object of the           *)
(*             constructor batch, the content of from_node's node, and     *)
(*             what the directory held before persist and                  *)
(*             from_persist_dir; out is the object returned, "ok" or the   *)
(*             exception raised; nodes are the nodes to_node(s) returned   *)
(***************************************************************************)
NoInst == [cls |-> "none", objs |-> <<>>, origin |-> "none", registered |-> {}]

NoSnap == [by |-> "none", origin |-> "none", ans |-> <<>>]

Call(op, cls, arg, out) == [op |-> op, cls |-> cls, arg |-> arg, out |-> out, nodes |-> <<>>]

Range(s) == {s[i] : i \in 1 .. Len(s)}

Init ==
    /\ inst = NoInst
    /\ seed = 0
    /\ \/ dirExists = FALSE /\ file = NoFile
       \/ dirExists = TRUE /\ file = Garbage
    /\ snap = NoSnap
    /\ last = Call("start", "none", "", "ok")

\* m = cls(objs) / cls.from_objects(objs)
Construct(cls, objs) ==
    /\ IF \E i \in 1 .. Len(objs) : ~validate_object(cls, objs[i])
       THEN /\ inst' = inst
            /\ last' = Call("construct", cls, "", "ValidationError")
       ELSE /\ inst' = [cls |-> cls, objs |-> DictComp(objs, seed), origin |-> "ctor", registered |-> Range(objs)]
            /\ last' = Call("construct", cls, IF objs = <<>> THEN "" ELSE objs[Len(objs)], "ok")
    /\ UNCHANGED <<seed, dirExists, file, snap>>

\* m.add_object(obj)
AddObject(obj) ==
    /\ inst.cls # "none"
    /\ IF ~validate_object(inst.cls, obj)
       THEN /\ inst' = inst
            /\ last' = Call("add_object", inst.cls, obj, "ValidationError")
       ELSE /\ inst' = [inst EXCEPT !.objs = _add_object(inst.objs, seed, obj), !.registered = @ \cup {obj}]
            /\ last' = Call("add_object", inst.cls, obj, "ok")
    /\ UNCHANGED <<seed, dirExists, file, snap>>

\* m.to_node(obj)
ToNode(obj) ==
    /\ inst.cls # "none"
    /\ last' = [Call("to_node", inst.cls, obj, "ok") EXCEPT !.nodes = <<to_node(obj)>>]
    /\ UNCHANGED <<inst, seed, dirExists, file, snap>>

\* the batches handed to to_nodes
NodeBatches == {<<>>, <<"A1", "L">>}

\* m.to_nodes(objs)
ToNodes(objs) ==
    /\ inst.cls # "none"
    /\ last' = [Call("to_nodes", inst.cls, "", "ok") EXCEPT !.nodes = to_nodes(objs)]
    /\ UNCHANGED <<inst, seed, dirExists, file, snap>>

\* m.from_node(node)
FromNode(node) ==
    /\ inst.cls # "none"
    /\ last' = Call("from_node", inst.cls, get_content(node), from_node(inst.cls, inst.objs, seed, node))
    /\ UNCHANGED <<inst, seed, dirExists, file, snap>>

\* m.obj_node_mapping (read)
GetObjNodeMapping ==
    /\ inst.cls # "none"
    /\ last' = Call("obj_node_mapping", inst.cls, "", "ok")
    /\ UNCHANGED <<inst, seed, dirExists, file, snap>>

\* what the persist directory holds before a persist call
Before(dirEx, f) == IF dirEx THEN f.kind ELSE "nodir"

\* M.from_node(M.to_node(v)) for each entry of M's table
Answers(m, sd) == [i \in 1 .. Len(m.objs) |-> from_node(m.cls, m.objs, sd, to_node(m.objs[i].v))]

\* the mutant of Persist: the table is emptied once it is written
PersistAndClear ==
    /\ inst.cls # "none"
    /\ LET r == persist(inst.objs, dirExists, file) IN
         /\ dirExists' = r.dir
         /\ file' = r.file
         /\ snap' = IF r.out = "ok" THEN [by |-> inst.cls, origin |-> inst.origin, ans |-> Answers(inst, seed)] ELSE NoSnap
         /\ last' = Call("persist", inst.cls, Before(dirExists, file), r.out)
    /\ inst' = [inst EXCEPT !.objs = <<>>]
    /\ UNCHANGED seed

\* m.persist(persist_dir, obj_node_mapping_fname)
Persist ==
    /\ inst.cls # "none"
    /\ LET r == persist(inst.objs, dirExists, file) IN
         /\ dirExists' = r.dir
         /\ file' = r.file
         /\ snap' = IF r.out = "ok" THEN [by |-> inst.cls, origin |-> inst.origin, ans |-> Answers(inst, seed)] ELSE NoSnap
         /\ last' = Call("persist", inst.cls, Before(dirExists, file), r.out)
    /\ UNCHANGED <<inst, seed>>

\* m = cls.from_persist_dir(persist_dir, obj_node_mapping_fname): on success
\* cls(None), then the loaded table set through the obj_node_mapping setter
FromPersistDir(cls) ==
    /\ LET out == from_persist_dir(dirExists, file) IN
         /\ inst' = IF out = "ok" THEN [cls |-> cls, objs |-> file.data, origin |-> "loaded", registered |-> {}] ELSE inst
         /\ last' = Call("from_persist_dir", cls, Before(dirExists, file), out)
    /\ UNCHANGED <<seed, dirExists, file, snap>>

\* the tables a caller assigns: an empty dict, and a dict of one entry
Mappings == {<<>>, <<Entry(NKeys - 1, "A1")>>}

\* m.obj_node_mapping = mapping
SetObjNodeMapping(mapping) ==
    /\ inst.cls # "none"
    /\ inst' = [inst EXCEPT !.objs = mapping]
    /\ last' = Call("set_obj_node_mapping", inst.cls, "", "ok")
    /\ UNCHANGED <<seed, dirExists, file, snap>>

\* the process ends and another starts: the instance is gone, the hash seed
\* is drawn anew (seeds are numbered as the processes draw them), the
\* directory and the file stay
Restart ==
    /\ seed + 1 \in Seeds
    /\ inst' = NoInst
    /\ seed' = seed + 1
    /\ last' = Call("restart", "none", "", "ok")
    /\ UNCHANGED <<dirExists, file, snap>>

\* construction and the calls on an instance
NextInstance ==
    \/ \E cls \in Classes, objs \in Batches : Construct(cls, objs)
    \/ \E obj \in Objs : AddObject(obj)
    \/ \E obj \in Objs : ToNode(obj)
    \/ \E objs \in NodeBatches : ToNodes(objs)
    \/ \E node \in Nodes : FromNode(node)
    \/ GetObjNodeMapping
    \/ Persist

Next ==
    \/ NextInstance
    \/ \E cls \in Classes : FromPersistDir(cls)

\* the calls of one process
Spec == Init /\ [][Next]_vars

NextRestart ==
    \/ Next
    \/ Restart

\* processes run one after the other over the same persist directory
SpecRestart == Init /\ [][NextRestart]_vars

NextSetter ==
    \/ NextInstance
    \/ \E mapping \in Mappings : SetObjNodeMapping(mapping)

\* one process whose caller constructs instances, calls them and also assigns
\* to their obj_node_mapping property
SpecSetter == Init /\ [][NextSetter]_vars

(***************************************************************************)
(* Properties.                                                             *)
(***************************************************************************)
\* the objects a mapping knows: those registered through it and those its
\* table holds
Known(m) == m.registered \cup {m.objs[i].v : i \in 1 .. Len(m.objs)}

AllPicklable(objs) == \A i \in 1 .. Len(objs) : Picklable(objs[i].v)

\* C1: in a mapping built by the constructor and add_object, every registered
\* object whose key no other registered object shares comes back from
\* from_node(to_node(o)).
C1_RoundTrip == inst.origin = "ctor" => \A o \in inst.registered : (\A p \in inst.registered \ {o} : hash(seed, str(p)) # hash(seed, str(o))) => from_node(inst.cls, inst.objs, seed, to_node(o)) = o

\* from_node has returned a registered object with a key of its own, asked
\* with that object's node, in a mapping of several registered objects
C1_Witness ==
    /\ last.op = "from_node" /\ inst.origin = "ctor" /\ last.out \in inst.registered
    /\ last.arg = get_content(to_node(last.out)) /\ Cardinality(inst.registered) >= 2
    /\ \A p \in inst.registered \ {last.out} : hash(seed, str(p)) # hash(seed, str(last.out))

\* C2: right after b is registered (last of the constructor batch, or by
\* add_object) in a mapping where a distinct a with the same string form was
\* registered before, the table holds exactly one entry under their key, the
\* entry is b, and from_node on a node with that content returns b.
C2_LastWriteWins == (last.op \in {"construct", "add_object"} /\ last.out = "ok" /\ last.arg \in Objs) => \A a \in inst.registered \ {last.arg} : str(a) = str(last.arg) =>
      (/\ Cardinality({i \in 1 .. Len(inst.objs) : inst.objs[i].k = hash(seed, str(a))}) = 1
       /\ DictGet(inst.objs, hash(seed, str(a))) = last.arg
       /\ \A node \in Nodes : get_content(node) = str(a) => from_node(inst.cls, inst.objs, seed, node) = last.arg)

\* a batch [.., A1, .., A2] has been handed to the constructor
C2_Witness == last.op = "construct" /\ last.out = "ok" /\ last.arg = "A2" /\ "A1" \in inst.registered

\* C3: a mapping loaded from the file that a constructed mapping M of the same
\* class persisted answers from_node(to_node(o)), for every o of the
\* persisted table, as M did when it persisted.
C3_PersistRoundTrip == (last.op = "from_persist_dir" /\ last.out = "ok" /\ snap.origin = "ctor" /\ snap.by = inst.cls) => \A i \in 1 .. Len(file.data) : from_node(inst.cls, inst.objs, seed, to_node(file.data[i].v)) = snap.ans[i]

\* C4 as stated: from_node on a node whose content is the string form of no
\* object the mapping knows raises KeyError.
C4_MissingKey == (last.op = "from_node" /\ \A o \in Known(inst) : str(o) # last.arg) => last.out = "KeyError"

\* C4 as amended: from_node on a node whose content hashes to no key of the
\* table raises KeyError.
C4_MissingKeyNoCollision == (last.op = "from_node" /\ ~DictHas(inst.objs, hash(seed, last.arg))) => last.out = "KeyError"

\* from_node has raised KeyError on a content no known object has, in a
\* mapping that holds objects
C4_Witness == last.op = "from_node" /\ last.out = "KeyError" /\ inst.objs # <<>> /\ \A o \in Known(inst) : str(o) # last.arg

\* C5: add_object on an object validate_object rejects raises the validation
\* failure and leaves the table as it was; from_node returns no rejected
\* object, and raises the validation failure when the object under the node's
\* key is rejected, loaded tables included.
C5_ValidationGating == [][
      /\ ((last'.op = "add_object" /\ ~validate_object(inst.cls, last'.arg)) => (last'.out = "ValidationError" /\ inst'.objs = inst.objs))
      /\ ((last'.op = "from_node" /\ last'.out \in Objs) => validate_object(inst'.cls, last'.out))
      /\ ((last'.op = "from_node" /\ DictHas(inst.objs, hash(seed, last'.arg)) /\ ~validate_object(inst.cls, DictGet(inst.objs, hash(seed, last'.arg)))) => last'.out = "ValidationError")
    ]_vars

\* from_node has raised the validation failure on an object of a loaded table
C5_Witness == last.op = "from_node" /\ last.out = "ValidationError" /\ inst.origin = "loaded"

\* C6: persist on a table holding an object pickle cannot serialize ends with
\* the ValueError of persist.
C6_UnpicklableIsValueError == (last.op = "persist" /\ ~AllPicklable(inst.objs)) => last.out = "ValueError"

\* C7: from_persist_dir on a missing, unopenable, truncated or invalid file
\* ends with the ValueError of from_persist_dir.
C7_UnreadableIsValueError == (last.op = "from_persist_dir" /\ last.arg \in {"nodir", "missing", "truncated", "garbage"}) => last.out = "ValueError"

\* C8: persist on a table of picklable objects succeeds whether or not the
\* directory exists; afterwards the directory exists and the file holds the
\* table as it is at that call.
C8_PersistCreatesDir == [][(last'.op = "persist" /\ AllPicklable(inst.objs)) => (last'.out = "ok" /\ dirExists' /\ file' = PickleFile(inst'.objs))]_vars

\* a persist into a directory that already holds a persisted table has
\* succeeded, and the file holds the non-empty table of the instance
C8_Witness == last.op = "persist" /\ last.arg = "pickle" /\ last.out = "ok" /\ dirExists /\ file = PickleFile(inst.objs) /\ Len(inst.objs) >= 1

\* C9: every entry (k, v) of the table satisfies k = hash(str(v)).
C9_TableInvariant == \A i \in 1 .. Len(inst.objs) : inst.objs[i].k = hash(seed, str(inst.objs[i].v))

\* C10 as stated: a call other than construction and add_object leaves the
\* table unchanged.
C10_OnlyAddMutates == [][last'.op \notin {"construct", "add_object"} => inst'.objs = inst.objs]_vars

\* C10 as amended: to_node, to_nodes, from_node, persist and reading
\* obj_node_mapping leave the table unchanged, whether they succeed or fail.
C10_FrameExceptSetter == [][last'.op \in {"to_node", "to_nodes", "from_node", "persist", "obj_node_mapping"} => inst'.objs = inst.objs]_vars

\* a persist has failed on a mapping that holds objects
C10_Witness == last.op = "persist" /\ last.out = "TypeError" /\ Len(inst.objs) >= 2

====
